---- MODULE Spec2Model ----
(***************************************************************************)
(* State-machine model of the CDP automation client (src/lib/cdp.js: the   *)
(* Page class and createPage) and of the extractors that drive it          *)
(* (src/scrapers/*.js, scrapeVirusTotal in src/lib/cdp.js).                *)
(*                                                                         *)
(* Every async function is cut at its awaits: one action runs the code     *)
(* from one await to the next.  The browser (chrome.tabs, chrome.debugger, *)
(* the timers) is the environment: it settles each pending promise either  *)
(* way, emits events and lets time pass.  Time is counted in units of      *)
(* 100 ms, of which every delay of the source is a multiple.               *)
(***************************************************************************)
EXTENDS Integers, Sequences, FiniteSets, TLC

\* ---- bounds of the model ------------------------------------------------
NumPages == 2     \* Page objects (sessions), each with a tab of its own
MaxCalls == 2     \* async calls that can be in progress at the same time
MaxGotos == 2     \* goto invocations whose listener or timer exist at a time
NumApiPages == 1  \* the sessions a caller of the Page API works with (Spec)
NumExtPages == 1  \* the pages extractors work on (specification SpecExt)
NumApiGotos == 1  \* the gotos of such a caller with a listener or timer left
NumLookups == 1   \* lookups of the background worker (SpecLookup)
MaxLookups == 2   \* lookups of the background worker that overlap (SpecOverlap)
MaxElapsed == 7   \* the age of a goto up to which time passes (SpecShared)
MaxNavs == 3      \* navigations of one tab, its blank page included (SpecNav)
MaxHelpers == 1   \* helper calls (getText, ..., type) under way at a time
MaxStrLen == 2    \* the longest selector, text or attribute name (SpecEscape)
MaxWaits == 1     \* waitForSelector calls under way at a time (SpecWait)
MaxTime  == 3     \* a goto's first units of time pass one by one, the rest
                  \* in jumps to the next timer that comes due

\* ---- constants of the program, in units of 100 ms ------------------------
MsPerUnit      == 100    \* one unit of time, in milliseconds
SettleDelay    == 5      \* await this.sleep(500)
DefaultTimeout == 300    \* timeout = 30000
ScenarioTimeout == 50    \* goto(url, {timeoutMs: 5000}) of the end-to-end scenario
ShortTimeout   == 2      \* a caller-chosen timeout of 200 ms
PollInterval   == 10     \* await page.sleep(1000)
MaxAttempts    == 12     \* const maxAttempts = 12
WaitInterval   == 1      \* interval = 100
WaitTimeout    == 10     \* waitForSelector(s, {timeout: 1000, interval: 100})

Pages == 1..NumPages
ApiPages == 1..NumApiPages
ApiGotos == 1..NumApiGotos
ExtPages == 1..NumExtPages
Lookups == 1..NumLookups
AllLookups == 1..MaxLookups
Calls == 1..MaxCalls
Gotos == 1..MaxGotos

GotoTimeouts   == {ShortTimeout, ScenarioTimeout}
WaitUntils     == {"load", "domcontentloaded"}
LoadEvent      == "Page.loadEventFired"
DomEvent       == "Page.domContentEventFired"
OtherEvent     == "Page.frameStartedLoading"
EventMethods   == {LoadEvent, DomEvent, OtherEvent}
DomainsWithoutDOM == <<"Page.enable", "Runtime.enable">>
Domains == <<"Page.enable", "Runtime.enable", "DOM.enable">>
Expressions    == {"window.location.href", "document.documentElement.outerHTML"}
TextLength     == "getAllTextContent.length"   \* cdp.js 339
Extraction     == "extraction"                 \* the extractors' page script
Selector       == <<"a">>                       \* the selector SpecWait waits for
HelperExpr     == "helper expression"           \* cdp.js 151-156 and the like
ExistsExpr     == "!!document.querySelector(selector)"    \* cdp.js 117
Methods        == {"Page.reload"}

VARIABLES
  pg,       \* pg[p]: the Page object p: its life-cycle stage, _attached, history flags
  chrome,   \* chrome[p]: the browser's side: the tab exists, a debugger is attached,
            \* the navigations of the tab and their events still to be emitted
  call,     \* call[c]: the async call in slot c: operation, position, locals, result
  gotos,    \* gotos[g]: the promise, listener and timer one goto invocation
            \* created, and the time since that goto was called
  done,     \* the call that returned in the last step, if one did, as it was
            \* when it returned, with the record of its goto
  ext,      \* ext[p]: the extractor that works on page p (specification SpecExt)
  bg        \* the background worker: its lookups, chrome.storage.local and the
            \* writes to it that are pending (specification SpecLookup)

vars == <<pg, chrome, call, done, gotos, ext, bg>>

Min(S) == CHOOSE x \in S : \A y \in S : x <= y
Max0(n) == IF n < 0 THEN 0 ELSE n

\* ---- records --------------------------------------------------------------
NoResp == [cmd |-> "", expr |-> "", kind |-> "none", value |-> ""]

\* A call slot with nothing in it.
IdleCall ==
  [op |-> "idle", page |-> 0, pc |-> "idle", outcome |-> "none",
   cmd |-> "", expr |-> "", resp |-> NoResp, ret |-> "",
   g |-> 0, wake |-> 0, step |-> 0, log |-> <<>>, sawAttached |-> FALSE,
   spent |-> 0, late |-> FALSE, params |-> {}, parts |-> <<>>, source |-> <<>>]

\* A goto slot not in use.
NoGoto ==
  [used |-> FALSE, page |-> 0, timeout |-> 0, waitUntil |-> "",
   timer |-> "none", left |-> 0, listener |-> FALSE, removes |-> 0,
   promise |-> "none", by |-> "", at |-> 0, elapsed |-> 0,
   navigate |-> "none", returned |-> FALSE, errMs |-> 0,
   nav |-> 0, cause |-> 0]

NoReturn == [call |-> IdleCall, goto |-> NoGoto]

\* new Page(tabId): constructor, cdp.js 26-31.
NewPage == [stage |-> "none", attached |-> FALSE, closedOnce |-> FALSE,
            enabled |-> {}]

NoExt == [kind |-> "none", pc |-> "none", result |-> "none", closes |-> 0,
          opened |-> FALSE, attempts |-> 0, message |-> ""]

\* The sources of a lookup, in the order handleLookup calls their extractors.
Sources == <<"virustotal", "ipinfo", "abuseipdb">>
SourceSet == {Sources[k] : k \in 1..Len(Sources)}

\* An entry of the aggregate: a result object, or { error: <string> }.
Entry(error, data) == [error |-> error, data |-> data]

\* The promise of one extractor, as Promise.allSettled reports it.
NotStarted == [status |-> "none", value |-> Entry("", ""), message |-> ""]

NoLookup ==
  [pc |-> "idle", version |-> "", ip |-> "",
   settled |-> [s \in SourceSet |-> NotStarted], results |-> <<>>]

NoBg ==
  [lk |-> [i \in AllLookups |-> NoLookup],
   store |-> [lastSearch |-> "", lastResults |-> <<>>],
   writes |-> <<>>]

Init ==
  /\ pg = [p \in Pages |-> NewPage]
  /\ chrome = [p \in Pages |-> [tab |-> FALSE, dbg |-> FALSE,
                                navs |-> 0, due |-> <<>>]]
  /\ call = [c \in Calls |-> IdleCall]
  /\ done = NoReturn
  /\ gotos = [g \in Gotos |-> NoGoto]
  /\ ext = [p \in Pages |-> NoExt]
  /\ bg = NoBg

\* A caller starts its call in the first slot that is free.
Free(c) == call[c].pc = "idle" /\ \A d \in Calls : d < c => call[d].pc # "idle"

\* A finished call: the promise the async function returned is settled.
Done(r, outcome, ret) ==
  [r EXCEPT !.pc = "done", !.outcome = outcome, !.ret = ret]

\* The slots of the calls an extractor makes: the extractor of page p awaits
\* its calls in slot p.
Owned(c) == c \in Pages /\ ext[c].kind # "none"

\* What is left of a goto once it has returned: the listener while it is still
\* registered and the timer while it is still pending, nothing otherwise.
Residue(G) ==
  IF G.listener \/ G.timer = "pending"
  THEN [NoGoto EXCEPT !.used = TRUE, !.page = G.page, !.timeout = G.timeout,
                      !.timer = G.timer, !.left = G.left,
                      !.listener = G.listener, !.removes = G.removes,
                      !.promise = G.promise, !.returned = TRUE]
  ELSE NoGoto

\* The call in slot c has run to its next await, or to its end: r is its record
\* now and gs the goto records.  A call that has returned leaves its slot,
\* unless an extractor awaits it, and its goto leaves only its residue.
Settle(c, r, gs) ==
  LET ret == r.pc = "done"
      G == IF r.g = 0 THEN NoGoto ELSE [gs[r.g] EXCEPT !.returned = ret]
  IN
  /\ call' = [call EXCEPT ![c] = IF ret /\ ~Owned(c) THEN IdleCall ELSE r]
  /\ done' = IF ret THEN [call |-> r, goto |-> G] ELSE NoReturn
  /\ gotos' = IF ret /\ r.g # 0 THEN [gs EXCEPT ![r.g] = Residue(G)] ELSE gs

\* ---- _sendCommand, cdp.js 54-65 -------------------------------------------

\* if (!this._attached) throw new Error('Debugger not attached')
SendCommandNeverThrows(attached) == FALSE
SendCommandThrows(attached) == ~attached

\* chrome.debugger.sendCommand(this.target, method, params): the command is on
\* the wire and the caller awaits the promise of this very call.
Transmit(r, method, expr) ==
  [r EXCEPT !.pc = "await_cmd", !.cmd = method, !.expr = expr,
            !.resp = NoResp, !.log = Append(@, method)]

\* _sendCommand as the first or next step of the call r on a page whose
\* _attached flag is `attached`.
SendCommand(r, attached, method, expr) ==
  IF SendCommandThrows(attached)
  THEN Done(r, "Debugger not attached", "")
  ELSE Transmit(r, method, expr)

\* The calls with a command in flight.
InFlight == {c \in Calls : call[c].pc = "await_cmd"}

\* `return await chrome.debugger.sendCommand(...)`: the response to the command
\* of call w settles the promise that call w awaits.
AwaiterInSendOrder(w) == Min({c \in InFlight : call[c].page = call[w].page})
Awaiter(w) == w

\* A response without result.value, and the text of exceptionDetails.
Absent == "undefined"
ExceptionTexts == {"Uncaught"}

\* What the page can answer to an evaluated expression.
PageValues(e) ==
  IF e = "window.location.href" THEN {"https://example.test/"}
  ELSE IF e = TextLength THEN {"<= 100", "> 100"}
  ELSE IF e = Extraction THEN {"data"}
  ELSE IF e = ExistsExpr THEN {"true", "false"}
  ELSE IF e = HelperExpr THEN {"text"}
  ELSE {"<html></html>"}

\* ---- a caller starts an operation on a page it holds ------------------------

\* new Page(tabId) by a caller, on a tab that exists or not: cdp.js 26-31.
Construct(p, tabExists) ==
  /\ pg[p].stage = "none"
  /\ pg' = [pg EXCEPT ![p] = [NewPage EXCEPT !.stage = "ready"]]
  /\ chrome' = [chrome EXCEPT ![p].tab = tabExists]
  /\ done' = NoReturn
  /\ UNCHANGED <<call, gotos, ext, bg>>

\* _sendCommand(method) called directly: cdp.js 54-65.
SendCommandStart(c, p, method) ==
  /\ Free(c) /\ pg[p].stage = "ready"
  /\ Settle(c, SendCommand([IdleCall EXCEPT !.op = "_sendCommand", !.page = p,
                                            !.sawAttached = pg[p].attached],
                           pg[p].attached, method, ""), gotos)
  /\ UNCHANGED <<pg, chrome, ext, bg>>

\* evaluate(expression) up to its await: cdp.js 130-135.
EvaluateParams == {"expression", "returnByValue", "awaitPromise"}

EvaluateCall(c, p, e) ==
  Settle(c, SendCommand([IdleCall EXCEPT !.op = "evaluate", !.page = p,
                                         !.sawAttached = pg[p].attached,
                                         !.params = EvaluateParams],
                        pg[p].attached, "Runtime.evaluate", e), gotos)

EvaluateStart(c, p, e) ==
  /\ Free(c) /\ pg[p].stage = "ready"
  /\ EvaluateCall(c, p, e)
  /\ UNCHANGED <<pg, chrome, ext, bg>>

\* ---- createPage and _attach, cdp.js 10-20 and 36-46 -----------------------

\* The browser answers each attach, detach and tabs.remove request on its own:
\* the code awaits three independent promises (cdp.js 39, 267, 275), and the
\* requests of calls under way together are answered in any order.

\* createPage up to `await chrome.tabs.create(...)`: cdp.js 10-15.
CreatePageCall(c, p) ==
  /\ pg[p].stage = "none"
  /\ pg' = [pg EXCEPT ![p].stage = "creating"]
  /\ Settle(c, [IdleCall EXCEPT !.op = "createPage", !.page = p,
                                !.pc = "await_tab",
                                !.log = <<"tabs.create about:blank">>],
            gotos)

CreatePageStart(c, p) ==
  /\ Free(c)
  /\ CreatePageCall(c, p)
  /\ UNCHANGED <<chrome, ext, bg>>

\* chrome.tabs.create settles; on success new Page(tab.id) and _attach() up to
\* `await chrome.debugger.attach(...)`: cdp.js 17-18, 26-31, 36-39.
TabsCreateSettle(c, ok) ==
  LET p == call[c].page IN
  /\ call[c].pc = "await_tab"
  /\ IF ok
     THEN /\ chrome' = [chrome EXCEPT ![p].tab = TRUE]
          /\ Settle(c, [call[c] EXCEPT !.pc = "await_attach",
                                       !.log = Append(@, "debugger.attach")],
                    gotos)
          /\ pg' = pg
     ELSE /\ Settle(c, Done(call[c], "tabs.create failed", ""), gotos)
          /\ pg' = [pg EXCEPT ![p].stage = "none"]
          /\ chrome' = chrome
  /\ UNCHANGED <<ext, bg>>

\* _attach() called on a page the caller holds: cdp.js 36-39.
AttachStart(c, p) ==
  /\ Free(c) /\ pg[p].stage = "ready"
  /\ IF pg[p].attached
     THEN /\ Settle(c, Done([IdleCall EXCEPT !.op = "_attach", !.page = p,
                                             !.sawAttached = TRUE], "ok", ""),
                    gotos)
          /\ chrome' = chrome
     ELSE /\ Settle(c, [IdleCall EXCEPT !.op = "_attach", !.page = p,
                                        !.pc = "await_attach",
                                        !.log = <<"debugger.attach">>], gotos)
          /\ chrome' = chrome
  /\ UNCHANGED <<pg, ext, bg>>

\* What becomes of the Page when createPage or _attach ends: createPage hands
\* the page to its caller only when _attach has returned (cdp.js 18-19).
StageAfter(r, outcome) ==
  IF r.op = "createPage"
  THEN (IF outcome = "ok" THEN "ready" ELSE "lost")
  ELSE "ready"

\* chrome.debugger.attach settles: cdp.js 39-43.  The browser attaches only to
\* an existing tab that has no debugger attached.
AttachSettle(c, ok) ==
  LET p == call[c].page IN
  /\ call[c].pc = "await_attach"
  /\ ok => chrome[p].tab /\ ~chrome[p].dbg
  /\ chrome' = [chrome EXCEPT ![p].dbg = IF ok THEN TRUE ELSE @]
  /\ IF ok
     THEN /\ Settle(c, SendCommand([call[c] EXCEPT !.step = 1], TRUE,
                                   Domains[1], ""), gotos)
          /\ pg' = [pg EXCEPT ![p].attached = TRUE]
     ELSE /\ Settle(c, Done(call[c], "attach failed", ""), gotos)
          /\ pg' = [pg EXCEPT ![p].stage = StageAfter(call[c], "attach failed")]
  /\ UNCHANGED <<ext, bg>>

\* The continuation of _attach after the k-th `await this._sendCommand(...)`:
\* cdp.js 43-46.
AfterEnable(c, r, ok) ==
  LET p == r.page
      k == r.step
      nxt == IF ~ok THEN Done(r, "CDP command failed", "")
             ELSE IF k = Len(Domains) THEN Done(r, "ok", "")
             ELSE SendCommand([r EXCEPT !.step = k + 1], pg[p].attached,
                              Domains[k + 1], "")
  IN
  /\ Settle(c, nxt, gotos)
  /\ pg' = [pg EXCEPT
       ![p].enabled = IF ok THEN @ \cup {Domains[k]} ELSE @,
       ![p].stage = IF nxt.pc = "done" THEN StageAfter(r, nxt.outcome) ELSE @]
  /\ UNCHANGED <<ext, bg>>

\* ---- goto, cdp.js 73-104 ---------------------------------------------------

FreeGotos == {g \in Gotos : ~gotos[g].used}

\* Lines 74-97 of goto: the promise with its deadline timer and its listener,
\* then _sendCommand('Page.navigate').  g is the record of this invocation.
GotoCallWithoutListener(c, p, g, timeout, waitUntil) ==
  LET r == SendCommand([IdleCall EXCEPT !.op = "goto", !.page = p, !.g = g,
                                        !.sawAttached = pg[p].attached],
                       pg[p].attached, "Page.navigate", "")
      G == [NoGoto EXCEPT !.used = TRUE, !.page = p, !.timeout = timeout,
                          !.waitUntil = waitUntil,
                          !.timer = "pending", !.left = timeout,
                          !.promise = "pending",
                          !.navigate = IF r.pc = "done" THEN "not sent"
                                       ELSE "sent"]
  IN Settle(c, r, [gotos EXCEPT ![g] = G])
GotoCall(c, p, g, timeout, waitUntil) ==
  LET r == SendCommand([IdleCall EXCEPT !.op = "goto", !.page = p, !.g = g,
                                        !.sawAttached = pg[p].attached],
                       pg[p].attached, "Page.navigate", "")
      G == [NoGoto EXCEPT !.used = TRUE, !.page = p, !.timeout = timeout,
                          !.waitUntil = waitUntil,
                          !.timer = "pending", !.left = timeout,
                          !.listener = TRUE, !.promise = "pending",
                          !.navigate = IF r.pc = "done" THEN "not sent"
                                       ELSE "sent"]
  IN Settle(c, r, [gotos EXCEPT ![g] = G])

GotoStart(c, p, g, timeout, waitUntil) ==
  /\ Free(c) /\ pg[p].stage = "ready"
  /\ g \in FreeGotos /\ g = Min(FreeGotos)
  /\ GotoCall(c, p, g, timeout, waitUntil)
  /\ UNCHANGED <<pg, chrome, ext, bg>>

\* The setTimeout callback of goto: cdp.js 78-81.
TimeoutCallbackKeepsListener(G) ==
  [G EXCEPT !.timer = "fired",
            !.promise = IF @ = "pending" THEN "rejected" ELSE @,
            !.errMs = G.timeout * MsPerUnit]
TimeoutCallback(G) ==
  [G EXCEPT !.timer = "fired", !.listener = FALSE, !.removes = @ + 1,
            !.promise = IF @ = "pending" THEN "rejected" ELSE @,
            !.errMs = G.timeout * MsPerUnit]

\* The event listener of goto: cdp.js 83-91.  waitUntil is not read.
ListenerOfAnySource(G, source, method) ==
  IF method = LoadEvent \/ method = DomEvent
  THEN [G EXCEPT !.timer = IF @ = "pending" THEN "cleared" ELSE @,
                 !.listener = FALSE, !.removes = @ + 1,
                 !.promise = IF @ = "pending" THEN "resolved" ELSE @,
                 !.by = method, !.at = G.elapsed]
  ELSE G
ListenerKeepsTimer(G, source, method) ==
  IF source # G.page THEN G
  ELSE IF method = LoadEvent \/ method = DomEvent
  THEN [G EXCEPT !.listener = FALSE, !.removes = @ + 1,
                 !.promise = IF @ = "pending" THEN "resolved" ELSE @,
                 !.by = method, !.at = G.elapsed]
  ELSE G
Listener(G, source, method) ==
  IF source # G.page THEN G
  ELSE IF method = LoadEvent \/ method = DomEvent
  THEN [G EXCEPT !.timer = IF @ = "pending" THEN "cleared" ELSE @,
                 !.listener = FALSE, !.removes = @ + 1,
                 !.promise = IF @ = "pending" THEN "resolved" ELSE @,
                 !.by = method, !.at = G.elapsed]
  ELSE G

\* What a goto record is once its callback has run: gone, when the goto has
\* returned and nothing of it is registered or pending any more.
After(G) == IF G.returned THEN Residue(G) ELSE G

\* A timer whose delay has passed runs its callback (never earlier).
GotoTimerFire(g) ==
  /\ gotos[g].timer = "pending" /\ gotos[g].left = 0
  /\ gotos' = [gotos EXCEPT ![g] = After(TimeoutCallback(@))]
  /\ done' = NoReturn
  /\ UNCHANGED <<pg, chrome, call, ext, bg>>

\* chrome.debugger.onEvent delivers an event of tab p to every registered
\* listener, of whatever page.
Emit(p, method) ==
  /\ chrome[p].dbg
  /\ \E g \in Gotos : gotos[g].listener
  /\ gotos' = [g \in Gotos |->
       IF gotos[g].listener THEN After(Listener(gotos[g], p, method))
       ELSE gotos[g]]
  /\ done' = NoReturn
  /\ UNCHANGED <<pg, chrome, call, ext, bg>>

\* `await loadPromise`, then `await this.sleep(500)`: cdp.js 100-103.  The
\* rejection carries `Navigation timeout after ${timeout}ms`.
GotoAwaitLoad(c) ==
  LET g == call[c].g IN
  /\ call[c].pc = "await_load"
  /\ gotos[g].promise # "pending"
  /\ IF gotos[g].promise = "resolved"
     THEN Settle(c, [call[c] EXCEPT !.pc = "sleeping", !.wake = SettleDelay],
                 gotos)
     ELSE Settle(c, Done(call[c], "Navigation timeout", "")
                      , gotos)
  /\ UNCHANGED <<pg, chrome, ext, bg>>

\* ---- the expressions of the derived helpers, cdp.js 117-229 -----------------

\* Strings are sequences of characters; the fixed text of a template is one
\* element, the quote that opens or closes a literal of the template another.
Quote     == "'"
Backslash == "\\"
Chars     == {"a", Quote, Backslash}
StringsTo(len) == UNION {[1..n -> Chars] : n \in 0..len}

\* str.replace(/'/g, "\\'"): a backslash before every single quote, every other
\* character (a backslash too) as it is.
RECURSIVE Escape(_)
Escape(str) ==
  IF str = <<>> THEN <<>>
  ELSE (IF Head(str) = Quote THEN <<Backslash, Quote>> ELSE <<Head(str)>>)
       \o Escape(Tail(str))

\* The helpers that make one evaluate call, and those that interpolate a second
\* value after the selector.
Helpers == {"getText", "getTextAll", "getAttribute", "exists", "click", "type"}
SecondValue(h) == h \in {"getAttribute", "type"}

\* The values a helper interpolates, each with the text it puts in the
\* expression: the selector escaped by every helper, the text of type escaped
\* (cdp.js 222-223), the attribute name of getAttribute as it came (cdp.js 185).
Interpolated(h, selector, second) ==
  <<[value |-> selector, text |-> Escape(selector)]>>
  \o (IF h = "type" THEN <<[value |-> second, text |-> Escape(second)]>>
      ELSE IF h = "getAttribute" THEN <<[value |-> second, text |-> second]>>
      ELSE <<>>)

\* The fixed text of each template before, between and after its literals,
\* with the line breaks the template has in the source: the templates of
\* waitForSelector and exists are one line (cdp.js 117, 197), the others
\* several (cdp.js 151-156, 166-171, 182-187, 207-212, 224-232).
Newline == "\n"
Before(h) ==
  IF h \in {"waitForSelector", "exists"} THEN <<"!!document.querySelector(">>
  ELSE IF h = "getTextAll"
       THEN <<Newline, "(function() {", Newline,
              "const els = document.querySelectorAll(">>
  ELSE <<Newline, "(function() {", Newline,
         "const el = document.querySelector(">>
Between(h) ==
  IF h = "getAttribute"
  THEN <<");", Newline, "return el ? el.getAttribute(">>
  ELSE <<");", Newline, "if (el) {", Newline, "el.value = ">>
AfterLast(h) ==
  IF h \in {"waitForSelector", "exists"} THEN <<")">>
  ELSE IF h = "getText"
       THEN <<");", Newline, "return el ? el.textContent.trim() : null;",
              Newline, "})()", Newline>>
  ELSE IF h = "getTextAll"
       THEN <<");", Newline,
              "return Array.from(els).map(el => el.textContent.trim());",
              Newline, "})()", Newline>>
  ELSE IF h = "getAttribute" THEN <<") : null;", Newline, "})()", Newline>>
  ELSE IF h = "click"
       THEN <<");", Newline, "if (el) el.click();", Newline, "})()", Newline>>
  ELSE <<";", Newline, "el.dispatchEvent(new Event(", Quote, "input", Quote,
         ", { bubbles: true }));", Newline, "}", Newline, "})()", Newline>>

\* The expression a helper hands to evaluate.
HelperSource(h, selector, second) ==
  LET parts == Interpolated(h, selector, second) IN
  Before(h) \o <<Quote>> \o parts[1].text \o <<Quote>>
  \o (IF Len(parts) = 2
      THEN Between(h) \o <<Quote>> \o parts[2].text \o <<Quote>> ELSE <<>>)
  \o AfterLast(h)

\* The calls under way of the helpers that build an expression.
Building == {c \in Calls : call[c].op \in Helpers \cup {"waitForSelector"}}

\* getText, getTextAll, getAttribute, exists, click and type up to the await
\* of their evaluate: cdp.js 149-151, 164-166, 180-182, 195-197, 205-207,
\* 221-224.
HelperStart(c, p, h, selector, second) ==
  /\ Free(c) /\ pg[p].stage = "ready"
  /\ Cardinality(Building) < MaxHelpers
  /\ SecondValue(h) \/ second = <<>>
  /\ Settle(c, SendCommand([IdleCall EXCEPT !.op = h, !.page = p,
                                            !.sawAttached = pg[p].attached,
                                            !.params = EvaluateParams,
                                            !.parts = Interpolated(h, selector, second),
                                            !.source = HelperSource(h, selector, second)],
                           pg[p].attached, "Runtime.evaluate", HelperExpr),
            gotos)
  /\ UNCHANGED <<pg, chrome, ext, bg>>

\* A JavaScript single-quoted literal read from position i, just after its
\* opening quote: a backslash takes the next character as it is, the first
\* quote that no backslash precedes closes the literal. A literal does not
\* run over a line break: the literal that meets one is not closed, and a
\* backslash before a line break continues the line and adds nothing. `end`
\* is the position of the closing quote, 0 when the literal is never closed.
RECURSIVE ReadLiteral(_, _, _)
ReadLiteral(src, i, acc) ==
  IF i > Len(src) THEN [end |-> 0, value |-> acc]
  ELSE IF src[i] = Quote THEN [end |-> i, value |-> acc]
  ELSE IF src[i] = Newline THEN [end |-> 0, value |-> acc]
  ELSE IF src[i] = Backslash
       THEN IF i = Len(src) THEN [end |-> 0, value |-> acc]
            ELSE IF src[i + 1] = Newline THEN ReadLiteral(src, i + 2, acc)
            ELSE ReadLiteral(src, i + 2, Append(acc, src[i + 1]))
  ELSE ReadLiteral(src, i + 1, Append(acc, src[i]))

\* ---- waitForSelector, cdp.js 112-123 ---------------------------------------

\* while (Date.now() - startTime < timeout)
LoopTestInclusive(spent, timeout) == spent <= timeout
LoopTest(spent, timeout) == spent < timeout

\* The loop from its test on: the existence check through evaluate, or the
\* throw after the loop: cdp.js 116-117, 122.
WaitLoop(r, attached) ==
  IF LoopTest(r.spent, WaitTimeout)
  THEN SendCommand([r EXCEPT !.step = @ + 1], attached, "Runtime.evaluate",
                   ExistsExpr)
  ELSE Done(r, "Timeout waiting for selector", r.parts[1].value)

\* The waitForSelector calls under way.
Waits == {c \in Calls : call[c].op = "waitForSelector"}

\* waitForSelector(selector, {timeout, interval}) up to its first await.
WaitForSelectorStart(c, p, selector) ==
  /\ Free(c) /\ pg[p].stage = "ready"
  /\ Cardinality(Building) < MaxWaits
  /\ Settle(c, WaitLoop([IdleCall EXCEPT !.op = "waitForSelector", !.page = p,
                                         !.sawAttached = pg[p].attached,
                                         !.params = EvaluateParams,
                                         !.parts = Interpolated("waitForSelector", selector, <<>>),
                                         !.source = HelperSource("waitForSelector", selector, <<>>)],
                        pg[p].attached), gotos)
  /\ UNCHANGED <<pg, chrome, ext, bg>>

\* if (exists) return
ExistsNeverReturns(v) == FALSE
ExistsReturns(v) == v = "true"

\* After `await this.evaluate(...)` of the loop: evaluate's throw goes through;
\* `if (exists) return; await this.sleep(interval)`: cdp.js 117-119, 137-141.
AfterExists(r, rsp) ==
  IF rsp.kind = "rejected" THEN Done(r, "CDP command failed", "")
  ELSE IF rsp.kind = "exception" THEN Done(r, "Evaluation failed", rsp.value)
  ELSE IF ExistsReturns(rsp.value) THEN Done(r, "ok", "")
  ELSE [r EXCEPT !.pc = "sleeping", !.wake = WaitInterval,
                 !.log = Append(@, "sleep")]

\* What a call does when its sleep is over: goto returns (cdp.js 103-104),
\* waitForSelector goes round its loop (cdp.js 119-120).
AfterSleep(r, attached) ==
  IF r.op = "waitForSelector" THEN WaitLoop(r, attached)
  ELSE Done(r, "ok", "")

\* sleep(ms), cdp.js 256-258: the timer of a sleeping call fires.
SleepFire(c) ==
  /\ call[c].pc = "sleeping" /\ call[c].wake = 0
  /\ Settle(c, AfterSleep(call[c], pg[call[c].page].attached), gotos)
  /\ UNCHANGED <<pg, chrome, ext, bg>>

\* ---- the response to a command ---------------------------------------------

\* The continuation of evaluate: cdp.js 137-141.
AfterEvaluateIgnoresException(r, rsp) ==
  IF rsp.kind = "rejected" THEN Done(r, "CDP command failed", "")
  ELSE Done(r, "ok", rsp.value)
AfterEvaluate(r, rsp) ==
  IF rsp.kind = "rejected" THEN Done(r, "CDP command failed", "")
  ELSE IF rsp.kind = "exception" THEN Done(r, "Evaluation failed", rsp.value)
  ELSE Done(r, "ok", rsp.value)

\* The browser answers the command of call w: a result, a rejection, or for
\* Runtime.evaluate a result with exceptionDetails.  Responses come in any
\* order.  The awaiting call then runs to its next await.
\* What a helper makes of its evaluate: its result for the helpers that return
\* it, nothing for click and type (cdp.js 207, 224), its failure for all.
AfterHelper(r, rsp) ==
  LET e == AfterEvaluate(r, rsp) IN
  IF r.op \in {"click", "type"} /\ e.outcome = "ok" THEN [e EXCEPT !.ret = Absent]
  ELSE e

CmdSettle(w, kind, v) ==
  LET c == Awaiter(w)
      g == call[c].g
      r == [call[c] EXCEPT !.resp = [cmd |-> call[w].cmd, expr |-> call[w].expr,
                                     kind |-> kind, value |-> v]]
      ok == kind # "rejected"
  IN
  /\ w \in InFlight
  /\ ok => chrome[call[w].page].dbg
  /\ kind = "exception" => call[w].cmd = "Runtime.evaluate"
  /\ v \in (IF kind = "result" /\ call[w].cmd = "Runtime.evaluate"
            THEN PageValues(call[w].expr) \cup {Absent}
            ELSE IF kind = "exception" THEN ExceptionTexts ELSE {""})
  /\ CASE r.op \in {"createPage", "_attach"} ->
            AfterEnable(c, r, ok)
       [] r.op = "goto" ->
            /\ Settle(c, IF ok THEN [r EXCEPT !.pc = "await_load"]
                         ELSE Done(r, "CDP command failed", ""),
                      [gotos EXCEPT ![g].navigate = IF ok THEN "ok" ELSE "failed"])
            /\ UNCHANGED <<pg, ext, bg>>
       [] r.op = "evaluate" ->
            /\ Settle(c, AfterEvaluate(r, r.resp), gotos)
            /\ UNCHANGED <<pg, ext, bg>>
       [] r.op = "waitForSelector" ->
            /\ Settle(c, AfterExists(r, r.resp), gotos)
            /\ UNCHANGED <<pg, ext, bg>>
       [] r.op \in Helpers ->
            /\ Settle(c, AfterHelper(r, r.resp), gotos)
            /\ UNCHANGED <<pg, ext, bg>>
       [] OTHER ->
            /\ Settle(c, IF ok THEN Done(r, "ok", r.resp.cmd)
                         ELSE Done(r, "CDP command failed", ""), gotos)
            /\ UNCHANGED <<pg, ext, bg>>
  /\ UNCHANGED chrome

\* ---- close, cdp.js 264-279 -------------------------------------------------

\* close up to its first await: `if (this._attached)` then the detach request,
\* else the tabs.remove request at once: cdp.js 265-267, 274-275.
CloseCall(c, p) ==
  /\ Settle(c, [IdleCall EXCEPT !.op = "close", !.page = p,
                                !.sawAttached = pg[p].attached,
                                !.pc = IF pg[p].attached THEN "await_detach"
                                       ELSE "await_remove",
                                !.log = IF pg[p].attached
                                        THEN <<"debugger.detach">>
                                        ELSE <<"tabs.remove">>], gotos)
  /\ chrome' = chrome

CloseStart(c, p) ==
  /\ Free(c) /\ pg[p].stage = "ready"
  /\ CloseCall(c, p)
  /\ UNCHANGED <<pg, ext, bg>>

\* close after `await chrome.debugger.detach` has settled: the catch swallows a
\* rejection, `this._attached = false`, then the tabs.remove request:
\* cdp.js 268-275.
CloseAfterDetach(r, ok) ==
  [r EXCEPT !.pc = "await_remove", !.log = Append(@, "tabs.remove")]

\* close after `await chrome.tabs.remove` has settled: the catch swallows a
\* rejection and close returns: cdp.js 274-279.
CloseRethrowsRemove(r, ok) ==
  IF ok THEN Done(r, "ok", r.ret) ELSE Done(r, "remove failed", r.ret)
CloseAfterRemove(r, ok) == Done(r, "ok", r.ret)

\* chrome.debugger.detach settles: it succeeds exactly when a debugger is
\* attached to the tab.
DetachSettle(c, ok) ==
  LET p == call[c].page
      r == CloseAfterDetach([call[c] EXCEPT !.resp.kind =
                               IF ok THEN "detached" ELSE "detach rejected"], ok)
      cleared == r.pc = "await_remove"
  IN
  /\ call[c].pc = "await_detach"
  /\ ok <=> chrome[p].dbg
  /\ Settle(c, r, gotos)
  /\ pg' = [pg EXCEPT ![p].attached = IF cleared THEN FALSE ELSE @,
                      ![p].closedOnce = IF cleared THEN TRUE ELSE @]
  /\ chrome' = [chrome EXCEPT ![p].dbg = FALSE]
  /\ UNCHANGED <<ext, bg>>

\* chrome.tabs.remove settles: it succeeds only for a tab that exists, and it
\* can be refused for one that does ("Tabs cannot be edited right now").
RemoveSettle(c, ok) ==
  LET p == call[c].page IN
  /\ call[c].pc = "await_remove"
  /\ ok => chrome[p].tab
  /\ Settle(c, CloseAfterRemove([call[c] EXCEPT !.ret =
                                   IF ok THEN "removed" ELSE "remove rejected"],
                                ok), gotos)
  /\ chrome' = [chrome EXCEPT
       ![p].tab = IF ok THEN FALSE ELSE @,
       ![p].dbg = IF ok THEN FALSE ELSE @]
  /\ UNCHANGED <<pg, ext, bg>>

\* ---- the rest of the environment --------------------------------------------

\* The tab goes away on its own (the user closes it, it crashes): the browser
\* detaches the debugger; the Page object is not told.
TabGone(p) ==
  /\ chrome[p].tab
  /\ chrome' = [chrome EXCEPT ![p].tab = FALSE, ![p].dbg = FALSE]
  /\ done' = NoReturn
  /\ UNCHANGED <<pg, call, gotos, ext, bg>>

\* The time left on the timers that are pending.
Countdowns ==
  {gotos[g].left : g \in {h \in Gotos : gotos[h].timer = "pending"}}
  \cup {call[c].wake : c \in {d \in Calls : call[d].pc = "sleeping"}}

\* d units of time pass: every pending timer comes d closer to being due, and
\* a timer that is due can still be late.
Pass(d) ==
  /\ gotos' = [g \in Gotos |->
       [gotos[g] EXCEPT
          !.left = IF gotos[g].timer = "pending" THEN Max0(@ - d) ELSE @,
          !.elapsed = IF gotos[g].used /\ ~gotos[g].returned THEN @ + d ELSE @]]
  /\ call' = [c \in Calls |->
       [call[c] EXCEPT
          !.wake = IF call[c].pc = "sleeping" THEN Max0(@ - d) ELSE @,
          !.spent = IF call[c].op = "waitForSelector"
                    THEN Min({@ + d, WaitTimeout + 1}) ELSE @,
          !.late = IF call[c].op = "waitForSelector"
                   THEN @ \/ call[c].pc = "await_cmd"
                          \/ (call[c].pc = "sleeping" /\ call[c].wake < d)
                   ELSE @]]
  /\ done' = NoReturn
  /\ UNCHANGED <<pg, chrome, ext, bg>>

\* Time passes by one unit during the first MaxTime units of a goto.
Tick ==
  /\ Countdowns # {}
  /\ \E g \in Gotos : /\ gotos[g].used /\ ~gotos[g].returned
                      /\ gotos[g].elapsed < MaxTime
  /\ Pass(1)

\* Time passes by one unit while a waitForSelector is under way.
WaitTick ==
  /\ \E c \in Calls : /\ call[c].op = "waitForSelector"
                      /\ call[c].pc \in {"await_cmd", "sleeping"}
                      /\ call[c].spent <= WaitTimeout \/ call[c].wake > 0
  /\ Pass(1)

\* Time passes up to the moment the next timer comes due.
Advance ==
  /\ Countdowns \ {0} # {}
  /\ Pass(Min(Countdowns \ {0}))

\* What the browser and the timers do, whoever the caller is.
ResponseValues ==
  {"", Absent} \cup ExceptionTexts \cup UNION {PageValues(e) : e \in Expressions \cup {TextLength, Extraction,
                                                          ExistsExpr, HelperExpr}}

Env ==
  \/ \E c \in Calls, b \in BOOLEAN : TabsCreateSettle(c, b)
  \/ \E c \in Calls, b \in BOOLEAN : AttachSettle(c, b)
  \/ \E w \in Calls, k \in {"result", "exception", "rejected"},
        v \in ResponseValues : CmdSettle(w, k, v)
  \/ \E c \in Calls : GotoAwaitLoad(c)
  \/ \E c \in Calls : SleepFire(c)
  \/ \E g \in Gotos : GotoTimerFire(g)
  \/ \E p \in Pages, m \in EventMethods : Emit(p, m)
  \/ \E c \in Calls, b \in BOOLEAN : DetachSettle(c, b)
  \/ \E c \in Calls, b \in BOOLEAN : RemoveSettle(c, b)
  \/ \E p \in Pages : TabGone(p)
  \/ Tick
  \/ Advance

\* ---- the specification of the Page API under any caller ---------------------
Next ==
  \/ \E p \in ApiPages, b \in BOOLEAN : Construct(p, b)
  \/ \E c \in Calls, p \in ApiPages : CreatePageStart(c, p)
  \/ \E c \in Calls, p \in ApiPages : AttachStart(c, p)
  \/ \E c \in Calls, p \in ApiPages, m \in Methods : SendCommandStart(c, p, m)
  \/ \E c \in Calls, p \in ApiPages, e \in Expressions : EvaluateStart(c, p, e)
  \/ \E c \in Calls, p \in ApiPages, g \in ApiGotos, t \in GotoTimeouts,
        w \in WaitUntils : GotoStart(c, p, g, t, w)
  \/ \E c \in Calls, p \in ApiPages : CloseStart(c, p)
  \/ Env

Spec == Init /\ [][Next]_vars

\* ---- the extractors -----------------------------------------------------------
\* scrapeIPInfo (ipinfo.js 13-190), scrapeAbuseIPDB (abuseipdb.js 13-195),
\* scrapeVirusTotal (cdp.js 293-562) and its earlier version (part_001 13-215).
\* The extractor of page p awaits each of its calls in slot p.

ExtKinds == {"ipinfo", "abuseipdb", "virustotal", "virustotal_v1"}

\* The wait after goto, for the page to render.
InitialWait(kind) ==
  CASE kind = "ipinfo" -> 20
    [] kind = "abuseipdb" -> 30
    [] kind = "virustotal" -> 30
    [] OTHER -> 60

\* sleep(ms): cdp.js 256-258.
SleepCall(c, p, ms) ==
  Settle(c, [IdleCall EXCEPT !.op = "sleep", !.page = p, !.pc = "sleeping",
                             !.wake = ms], gotos)

\* `page = await createPage()`.
ExtStart(p, kind) ==
  /\ ext[p].kind = "none" /\ call[p].pc = "idle"
  /\ CreatePageCall(p, p)
  /\ UNCHANGED bg
  /\ ext' = [ext EXCEPT ![p] = [NoExt EXCEPT !.kind = kind, !.pc = "createPage"]]
  /\ UNCHANGED chrome

\* `finally { if (page) { await page.close(); } }`
FinallySkipsCloseOnError(opened, result) == opened /\ result # "error"
FinallyCloses(opened, result) == opened

\* The catch block: `return { error: err.message || 'Failed to scrape ...' }`
\* (cdp.js 552-556, ipinfo.js 180-184, abuseipdb.js 185-189).
NoErrorMessage(thrown) == ""
ErrorMessage(thrown) == IF thrown # "" THEN thrown ELSE "Failed to scrape"

\* What the call the extractor awaited has thrown; `page.injectStealthScripts`
\* is not a function when the call had returned.
Thrown(r) ==
  IF r.outcome = "ok" THEN "page.injectStealthScripts is not a function"
  ELSE r.outcome

\* The extractor's promise settles.
ExtReturn(p, e, result) ==
  /\ UNCHANGED bg
  /\ ext' = [ext EXCEPT ![p] = [e EXCEPT !.pc = "returned", !.result = result]]
  /\ call' = [call EXCEPT ![p] = IdleCall]
  /\ done' = NoReturn
  /\ UNCHANGED <<pg, chrome, gotos>>

\* `return data` or the catch block's `return { error: ... }`, then finally.
ExtFinally(p, e, result) ==
  IF FinallyCloses(e.opened, result)
  THEN /\ CloseCall(p, p)
       /\ UNCHANGED bg
       /\ ext' = [ext EXCEPT ![p] = [e EXCEPT !.pc = "close", !.result = result,
                                              !.closes = @ + 1]]
       /\ UNCHANGED pg
  ELSE ExtReturn(p, e, result)

\* `await page.goto(url, { timeout: 30000 })`; waitUntil defaults to 'load'.
ExtGoto(p, e) ==
  /\ FreeGotos # {}
  /\ GotoCall(p, p, Min(FreeGotos), DefaultTimeout, "load")
  /\ UNCHANGED bg
  /\ ext' = [ext EXCEPT ![p] = [e EXCEPT !.pc = "goto"]]
  /\ UNCHANGED <<pg, chrome>>

ExtSleep(p, e, pc, ms) ==
  /\ SleepCall(p, p, ms)
  /\ UNCHANGED bg
  /\ ext' = [ext EXCEPT ![p] = [e EXCEPT !.pc = pc]]
  /\ UNCHANGED <<pg, chrome>>

ExtEvaluate(p, e, pc, expr) ==
  /\ EvaluateCall(p, p, expr)
  /\ UNCHANGED bg
  /\ ext' = [ext EXCEPT ![p] = [e EXCEPT !.pc = pc]]
  /\ UNCHANGED <<pg, chrome>>

\* `if (textLength > 100) break;` and `while (attempts < maxAttempts)` after
\* `attempts++`: cdp.js 338-342.
ThresholdReached(ret) == ret = "> 100"
PollAgain(n) == n < MaxAttempts

\* The call the extractor of page p awaits has returned: the extractor runs to
\* its next await, or to its end.  After createPage the current
\* scrapeVirusTotal calls `await page.injectStealthScripts()` (cdp.js 301):
\* Page defines no such method (cdp.js 26-279), the call throws a TypeError and
\* the catch block takes over, so its goto, its waits, its polling loop and its
\* extraction (cdp.js 305-550) are never run.
ExtStep(p) ==
  LET r == call[p]
      e == ext[p]
      ok == r.outcome = "ok"
      n == e.attempts + 1
  IN
  /\ e.kind # "none" /\ e.pc # "returned" /\ r.pc = "done"
  /\ CASE e.pc = "createPage" /\ ok /\ e.kind # "virustotal" ->
            ExtGoto(p, [e EXCEPT !.opened = TRUE])
       [] e.pc = "createPage" /\ ok /\ e.kind = "virustotal" ->
            ExtFinally(p, [e EXCEPT !.opened = TRUE,
                                    !.message = ErrorMessage(Thrown(r))], "error")
       [] e.pc = "goto" /\ ok ->
            ExtSleep(p, e, "sleep", InitialWait(e.kind))
       [] e.pc = "sleep" ->
            IF e.kind = "virustotal"
            THEN ExtEvaluate(p, e, "poll", TextLength)
            ELSE ExtEvaluate(p, e, "evaluate", Extraction)
       [] e.pc = "poll" /\ ok ->
            IF ThresholdReached(r.ret)
            THEN ExtEvaluate(p, e, "evaluate", Extraction)
            ELSE ExtSleep(p, e, "pollsleep", PollInterval)
       [] e.pc = "pollsleep" ->
            IF PollAgain(n)
            THEN ExtEvaluate(p, [e EXCEPT !.attempts = n], "poll", TextLength)
            ELSE ExtEvaluate(p, [e EXCEPT !.attempts = n], "evaluate",
                             Extraction)
       [] e.pc = "evaluate" /\ ok ->
            ExtFinally(p, e, "data")
       [] e.pc = "close" ->
            ExtReturn(p, e, IF ok THEN e.result ELSE "rejected")
       [] OTHER ->
            ExtFinally(p, [e EXCEPT !.message = ErrorMessage(Thrown(r))], "error")

\* ---- the specification of several sessions on the one event bus --------------

\* Time passes up to the next timer while no goto is older than MaxElapsed.
AdvanceEarly ==
  /\ \A g \in Gotos : gotos[g].elapsed < MaxElapsed
  /\ Advance

EnvShared ==
  \/ \E c \in Calls, b \in BOOLEAN : TabsCreateSettle(c, b)
  \/ \E c \in Calls, b \in BOOLEAN : AttachSettle(c, b)
  \/ \E w \in Calls, k \in {"result", "rejected"} : CmdSettle(w, k, "")
  \/ \E c \in Calls : GotoAwaitLoad(c)
  \/ \E c \in Calls : SleepFire(c)
  \/ \E g \in Gotos : GotoTimerFire(g)
  \/ \E p \in Pages, m \in EventMethods : Emit(p, m)
  \/ AdvanceEarly

NextShared ==
  \/ \E c \in Calls, p \in Pages : CreatePageStart(c, p)
  \/ \E c \in Calls, p \in Pages, g \in Gotos :
        GotoStart(c, p, g, ShortTimeout, "load")
  \/ EnvShared

SpecShared == Init /\ [][NextShared]_vars

\* ---- the specification of goto with the navigations of the tab ---------------

\* The events a navigation causes, in the order the browser emits them.
EventsOf(nav) ==
  <<[method |-> DomEvent, nav |-> nav], [method |-> LoadEvent, nav |-> nav]>>

\* The tab that chrome.tabs.create({url: 'about:blank'}) made loads its blank
\* page, the first navigation of the tab: cdp.js 12-15.
BlankPageLoads(p) ==
  /\ chrome[p].tab /\ chrome[p].navs = 0
  /\ chrome' = [chrome EXCEPT ![p].navs = 1, ![p].due = EventsOf(1)]
  /\ done' = NoReturn
  /\ UNCHANGED <<pg, call, gotos, ext, bg>>

\* The browser answers the Page.navigate of a goto and begins the navigation,
\* which replaces the one under way in the tab; goto goes on to
\* `await loadPromise`: cdp.js 97-100.
NavigateSettle(w) ==
  LET c == Awaiter(w)
      g == call[c].g
      p == call[w].page
      n == chrome[p].navs + 1
  IN
  /\ w \in InFlight /\ call[c].op = "goto" /\ chrome[p].dbg
  /\ chrome[p].navs >= 1 /\ chrome[p].navs < MaxNavs
  /\ chrome' = [chrome EXCEPT ![p].navs = n, ![p].due = EventsOf(n)]
  /\ Settle(c, [call[c] EXCEPT !.pc = "await_load",
                               !.resp = [cmd |-> call[w].cmd, expr |-> "",
                                         kind |-> "result", value |-> ""]],
            [gotos EXCEPT ![g].navigate = "ok", ![g].nav = n])
  /\ UNCHANGED <<pg, ext, bg>>

\* The listener of goto record G has run on an event of navigation nav: the
\* record remembers the navigation whose event ended its wait.
Observed(G, H, nav) ==
  IF G.promise = "pending" /\ H.promise = "resolved" THEN [H EXCEPT !.cause = nav]
  ELSE H

\* chrome.debugger.onEvent delivers the next event of the navigation of tab p
\* to every registered listener; it is lost when the debugger is not attached.
EmitDue(p) ==
  LET ev == Head(chrome[p].due) IN
  /\ chrome[p].due # <<>>
  /\ chrome' = [chrome EXCEPT ![p].due = Tail(@)]
  /\ gotos' = [g \in Gotos |->
       IF gotos[g].listener /\ chrome[p].dbg
       THEN After(Observed(gotos[g], Listener(gotos[g], p, ev.method), ev.nav))
       ELSE gotos[g]]
  /\ done' = NoReturn
  /\ UNCHANGED <<pg, call, ext, bg>>

EnvNav ==
  \/ \E c \in Calls, b \in BOOLEAN : TabsCreateSettle(c, b)
  \/ \E c \in Calls, b \in BOOLEAN : AttachSettle(c, b)
  \/ \E w \in Calls, k \in {"result", "rejected"} : CmdSettle(w, k, "")
  \/ \E p \in ApiPages : BlankPageLoads(p)
  \/ \E w \in Calls : NavigateSettle(w)
  \/ \E p \in ApiPages : EmitDue(p)
  \/ \E c \in Calls : GotoAwaitLoad(c)
  \/ \E c \in Calls : SleepFire(c)
  \/ \E g \in Gotos : GotoTimerFire(g)
  \/ AdvanceEarly

NextNav ==
  \/ \E c \in Calls, p \in ApiPages : CreatePageStart(c, p)
  \/ \E c \in Calls, p \in ApiPages, g \in ApiGotos :
        GotoStart(c, p, g, ShortTimeout, "load")
  \/ EnvNav

SpecNav == Init /\ [][NextNav]_vars

\* ---- the specification of the helpers under any selector and text ------------

EnvEscape ==
  \/ \E c \in Calls, b \in BOOLEAN : TabsCreateSettle(c, b)
  \/ \E c \in Calls, b \in BOOLEAN : AttachSettle(c, b)
  \/ \E w \in Calls, kind \in {"result", "exception", "rejected"},
        v \in ResponseValues : CmdSettle(w, kind, v)
  \/ \E c \in Calls : SleepFire(c)
  \/ WaitTick

NextEscape ==
  \/ \E c \in Calls, p \in ApiPages : CreatePageStart(c, p)
  \/ \E c \in Calls, p \in ApiPages, h \in Helpers,
        selector \in StringsTo(MaxStrLen), second \in StringsTo(MaxStrLen) :
        HelperStart(c, p, h, selector, second)
  \/ \E c \in Calls, p \in ApiPages, selector \in StringsTo(MaxStrLen) :
        WaitForSelectorStart(c, p, selector)
  \/ EnvEscape

SpecEscape == Init /\ [][NextEscape]_vars

\* ---- the specification of waitForSelector under any caller -------------------
EnvWait ==
  \/ \E c \in Calls, b \in BOOLEAN : AttachSettle(c, b)
  \/ \E w \in Calls, k \in {"result", "exception", "rejected"},
        v \in ResponseValues : CmdSettle(w, k, v)
  \/ \E c \in Calls : SleepFire(c)
  \/ \E c \in Calls, b \in BOOLEAN : DetachSettle(c, b)
  \/ \E c \in Calls, b \in BOOLEAN : RemoveSettle(c, b)
  \/ \E p \in Pages : TabGone(p)
  \/ WaitTick

NextWait ==
  \/ \E p \in ApiPages : Construct(p, TRUE)
  \/ \E c \in Calls, p \in ApiPages : AttachStart(c, p)
  \/ \E c \in Calls, p \in ApiPages : WaitForSelectorStart(c, p, Selector)
  \/ \E c \in Calls, p \in ApiPages : CloseStart(c, p)
  \/ EnvWait

SpecWait == Init /\ [][NextWait]_vars

\* Every command is answered, every timer that is due fires, and time passes.
SpecWaitFair ==
  /\ SpecWait
  /\ \A c \in Calls :
       /\ WF_vars(\E k \in {"result", "exception", "rejected"},
                     v \in ResponseValues : CmdSettle(c, k, v))
       /\ WF_vars(SleepFire(c))
  /\ WF_vars(WaitTick)

\* ---- the specification of the extractors --------------------------------------
NextExt ==
  \/ \E p \in ExtPages, k \in ExtKinds : ExtStart(p, k)
  \/ \E p \in ExtPages : ExtStep(p)
  \/ Env

SpecExt == Init /\ [][NextExt]_vars

\* Every command is answered, every timer that is due fires, time passes and
\* every extractor runs on when the call it awaits has returned.
SpecExtFair ==
  /\ SpecExt
  /\ \A c \in Calls :
       /\ WF_vars(\E k \in {"result", "exception", "rejected"},
                     v \in ResponseValues : CmdSettle(c, k, v))
       /\ WF_vars(SleepFire(c))
  /\ \A p \in ExtPages : WF_vars(ExtStep(p))
  /\ WF_vars(Advance)

\* ---- handleLookup -------------------------------------------------------------
\* popup.js 269-299 (storage writes not awaited) and its earlier version
\* part_003 28-54 (storage writes awaited); processResult, popup.js 335-344.
\* The extractors are taken by their outcomes here: each fulfils with a result
\* object or an error entry, or rejects.

Versions == {"popup.js", "part_003"}
Addresses == {"1.1.1.1", "8.8.8.8"}

\* The name processResult is given for a source.
DisplayName(s) ==
  CASE s = "virustotal" -> "VirusTotal"
    [] s = "ipinfo" -> "IPInfo"
    [] OTHER -> "AbuseIPDB"

\* What the extractor of source s can settle with for address ip: its data, an
\* error entry of its catch block (that of scrapeVirusTotal also for the call of
\* page.injectStealthScripts, cdp.js 301), or a rejection.
Fulfilled(v) == [status |-> "fulfilled", value |-> v, message |-> ""]
Rejected(m) == [status |-> "rejected", value |-> Entry("", ""), message |-> m]
ResultOf(s, ip) == Entry("", s \o " " \o ip)
Outcomes(s, ip) ==
  {Fulfilled(ResultOf(s, ip)), Fulfilled(Entry("Navigation timeout after 30000ms", "")),
   Rejected("Debugger not attached"), Rejected("")}
  \cup (IF s = "virustotal"
        THEN {Fulfilled(Entry("page.injectStealthScripts is not a function", ""))}
        ELSE {})

\* processResult(result, source): popup.js 335-344.
ProcessResult(result, source) ==
  IF result.status = "fulfilled" THEN result.value
  ELSE Entry("Failed to fetch data from " \o source \o ": " \o
               (IF result.message # "" THEN result.message ELSE "Unknown error"),
             "")

\* chrome.storage.local.set(items) is called: the write is pending.
StorageSet(b, i, key, value) ==
  [b EXCEPT !.writes = Append(@, [by |-> i, key |-> key, value |-> value])]

\* `Promise.allSettled([scrapeVirusTotal(ip), scrapeIPInfo(ip),
\* scrapeAbuseIPDB(ip)])`: the three extractors are called, one after the other,
\* and handleLookup awaits them all: popup.js 278-282.
StartExtractors(b, i) ==
  [b EXCEPT ![i].pc = "await_all",
            ![i].settled = [s \in SourceSet |->
                              [NotStarted EXCEPT !.status = "pending"]]]

\* handleLookup(ip) up to its first await: the write of lastSearch, awaited
\* (part_003 32) or not (popup.js 273-275).  Lookup i is the i-th message; the
\* worker that answers it is the one script that answered the messages before.
LookupStart(i, ip, version) ==
  LET b == StorageSet(bg, i, "lastSearch", ip)
      l == [b.lk EXCEPT ![i].version = version, ![i].ip = ip]
  IN
  /\ bg.lk[i].pc = "idle"
  /\ \A j \in AllLookups :
       j < i => bg.lk[j].pc # "idle" /\ bg.lk[j].version = version
  /\ bg' = [b EXCEPT !.lk = IF version = "part_003"
                            THEN [l EXCEPT ![i].pc = "await_search"]
                            ELSE StartExtractors(l, i)]
  /\ done' = NoReturn
  /\ UNCHANGED <<pg, chrome, call, gotos, ext>>

\* The extractor of source s of lookup i settles.
ScraperSettle(i, s, o) ==
  /\ bg.lk[i].pc = "await_all" /\ bg.lk[i].settled[s].status = "pending"
  /\ o \in Outcomes(s, bg.lk[i].ip)
  /\ bg' = [bg EXCEPT !.lk[i].settled[s] = o]
  /\ done' = NoReturn
  /\ UNCHANGED <<pg, chrome, call, gotos, ext>>

\* The aggregate: popup.js 285-289.
Aggregate(settled) ==
  [s \in SourceSet |-> ProcessResult(settled[s], DisplayName(s))]

\* Promise.allSettled has resolved: the aggregate is built and its write to
\* storage issued, awaited (part_003 49) or not (popup.js 292-294); then
\* `return results`.
LookupAggregate(i) ==
  LET l == bg.lk[i]
      results == Aggregate(l.settled)
      b == StorageSet(bg, i, "lastResults", results)
  IN
  /\ l.pc = "await_all"
  /\ \A s \in SourceSet : l.settled[s].status \in {"fulfilled", "rejected"}
  /\ bg' = [b EXCEPT !.lk[i].results = results,
                     !.lk[i].pc = IF l.version = "part_003" THEN "await_results"
                                  ELSE "returned"]
  /\ done' = NoReturn
  /\ UNCHANGED <<pg, chrome, call, gotos, ext>>

\* What handleLookup does when the write it awaits has settled (part_003 32,
\* 49); the version that does not await only logs a failure (popup.js 273-275,
\* 292-294).
AfterWrite(l, key, ok) ==
  IF l.version = "part_003" /\ l.pc = "await_search" /\ key = "lastSearch"
  THEN (IF ok THEN [pc |-> "start"] ELSE [pc |-> "rejected"])
  ELSE IF l.version = "part_003" /\ l.pc = "await_results" /\ key = "lastResults"
  THEN (IF ok THEN [pc |-> "returned"] ELSE [pc |-> "rejected"])
  ELSE [pc |-> l.pc]

\* chrome.storage.local answers the oldest pending write.
StoreSettle(ok) ==
  LET w == Head(bg.writes)
      next == AfterWrite(bg.lk[w.by], w.key, ok).pc
      b == [bg EXCEPT !.writes = Tail(@),
                      !.store = IF ok THEN [@ EXCEPT ![w.key] = w.value] ELSE @]
  IN
  /\ bg.writes # <<>>
  /\ bg' = [b EXCEPT !.lk = IF next = "start" THEN StartExtractors(b.lk, w.by)
                            ELSE [b.lk EXCEPT ![w.by].pc = next]]
  /\ done' = NoReturn
  /\ UNCHANGED <<pg, chrome, call, gotos, ext>>

\* The response the onMessage listener sends for lookup l: the aggregate when
\* handleLookup has returned, {error: err.message} when it has rejected, none
\* before: popup.js 246-250, part_003 12-16.
Response(l) ==
  IF l.pc = "returned" THEN [kind |-> "aggregate", results |-> l.results]
  ELSE IF l.pc = "rejected" THEN [kind |-> "error", results |-> <<>>]
  ELSE [kind |-> "none", results |-> <<>>]

NextLookup ==
  \/ \E i \in Lookups, ip \in Addresses, v \in Versions : LookupStart(i, ip, v)
  \/ \E i \in Lookups, s \in SourceSet,
        o \in UNION {Outcomes(t, ip) : t \in SourceSet, ip \in Addresses} :
        ScraperSettle(i, s, o)
  \/ \E i \in Lookups : LookupAggregate(i)
  \/ \E b \in BOOLEAN : StoreSettle(b)

SpecLookup == Init /\ [][NextLookup]_vars

\* Two lookup messages whose handleLookup calls overlap.
NextOverlap ==
  \/ \E i \in AllLookups, ip \in Addresses, v \in Versions : LookupStart(i, ip, v)
  \/ \E i \in AllLookups, s \in SourceSet,
        o \in UNION {Outcomes(t, ip) : t \in SourceSet, ip \in Addresses} :
        ScraperSettle(i, s, o)
  \/ \E i \in AllLookups : LookupAggregate(i)
  \/ \E b \in BOOLEAN : StoreSettle(b)

SpecOverlap == Init /\ [][NextOverlap]_vars

\* ---- properties -------------------------------------------------------------

CommandOps == {"_sendCommand", "evaluate", "goto"}

\* The call that returned in the last step, and the record of its goto.
Ret == done.call
RetGoto == done.goto
Returned(op) == Ret.op = op /\ Ret.pc = "done"

\* Call c puts a command on the wire in this step.
Transmits(c) ==
  /\ call'[c].pc = "await_cmd"
  /\ call[c].pc # "await_cmd" \/ call'[c].log # call[c].log

\* A call starts and returns in this one step: it never waited in a slot.
ReturnsAtOnce == done' # NoReturn /\ call' = call

\* C1: an operation that issues a command (_sendCommand, evaluate, goto's
\* navigate) on a session whose attached flag is false fails at once with the
\* not-attached error, and no step puts a command on the wire for a session
\* whose flag is false.
C1_NotAttachedFailsWithoutTransmit ==
  [][/\ \A c \in Calls : Transmits(c) => pg'[call'[c].page].attached
     /\ \A c \in Calls :
          (call[c].pc = "idle" /\ call'[c].pc # "idle"
             /\ call'[c].op \in CommandOps)
          => pg[call'[c].page].attached
     /\ (ReturnsAtOnce /\ done'.call.op \in CommandOps)
          => /\ ~pg[done'.call.page].attached
             /\ done'.call.outcome = "Debugger not attached"
             /\ done'.call.log = <<>>]_vars

\* open -> close -> evaluate has failed with the not-attached error.
C1_Witness ==
  /\ Returned("evaluate") /\ Ret.outcome = "Debugger not attached"
  /\ pg[Ret.page].closedOnce /\ pg[Ret.page].enabled # {}

\* C2: the response a caller receives is the response to its own command,
\* whatever other command is in flight and whatever the order of the responses;
\* evaluate returns the value of its own expression.
C2_ResponseToOwnCommand ==
  /\ \A c \in Calls :
       call[c].resp.cmd # "" =>
         call[c].resp.cmd = call[c].cmd /\ call[c].resp.expr = call[c].expr
  /\ Ret.resp.cmd # "" =>
       Ret.resp.cmd = Ret.cmd /\ Ret.resp.expr = Ret.expr
  /\ (Returned("evaluate") /\ Ret.outcome = "ok") =>
       Ret.ret \in PageValues(Ret.expr) \cup {Absent}

\* An evaluate has returned its value while another evaluate of the same
\* session, of another expression, is still in flight.
C2_Witness ==
  /\ Returned("evaluate") /\ Ret.outcome = "ok"
  /\ \E c \in InFlight :
       /\ call[c].page = Ret.page /\ call[c].op = "evaluate"
       /\ call[c].expr # Ret.expr

\* C3: once close has set the attached flag to false, nothing makes it true
\* again.
C3_NeverAttachedAgain ==
  \A p \in Pages : pg[p].closedOnce => ~pg[p].attached

\* C4: close never raises, whatever the state of the session and whatever the
\* outcomes of detach and of tabs.remove.
C4_CloseNeverRaises ==
  Returned("close") => Ret.outcome = "ok"

\* A second close, on a session a first close has detached, has returned
\* although tabs.remove was rejected.
C4_Witness ==
  /\ Returned("close") /\ Ret.outcome = "ok"
  /\ ~Ret.sawAttached /\ pg[Ret.page].closedOnce
  /\ Ret.ret = "remove rejected"

\* C5: a close of an attached session requests detach, then tabs.remove, also
\* when detach fails, and attached is false when it returns (and from the
\* moment it has requested tabs.remove).
C5_DetachThenRemove ==
  /\ (Returned("close") /\ Ret.sawAttached) =>
       /\ Ret.log = <<"debugger.detach", "tabs.remove">>
       /\ ~pg[Ret.page].attached
  /\ \A c \in Calls :
       (call[c].op = "close" /\ call[c].sawAttached
          /\ call[c].pc = "await_remove")
       => /\ call[c].log = <<"debugger.detach", "tabs.remove">>
          /\ ~pg[call[c].page].attached

\* C6: a session an extractor has opened is closed exactly once before the
\* extractor returns, whether it returns data or an error; it is never closed
\* twice, and a close is only ever called on a session that was opened.
C6_ClosedExactlyOnce ==
  \A p \in Pages :
    /\ (ext[p].pc = "returned" /\ ext[p].opened) => ext[p].closes = 1
    /\ ext[p].closes <= 1
    /\ ext[p].closes = 1 => ext[p].opened
    /\ ext[p].pc = "returned" => ext[p].result \in {"data", "error"}

\* An extractor has returned an error after its goto failed, and has closed
\* the session it had opened.
C6_Witness ==
  \E p \in Pages :
    /\ ext[p].pc = "returned" /\ ext[p].opened
    /\ ext[p].result = "error" /\ ext[p].closes = 1
    /\ pg[p].closedOnce

\* C7: when goto returns, by whatever path, its listener is not registered,
\* its timer is not pending, and the listener was removed exactly once.
C7_GotoLeavesNothing ==
  Returned("goto") =>
    /\ ~RetGoto.listener
    /\ RetGoto.timer # "pending"
    /\ RetGoto.removes = 1

\* C8 as stated: a goto during whose timeout no load-complete event arrived
\* has failed with the navigation-timeout error, no earlier than the timeout,
\* and has no listener left.
C8_TimeoutWheneverNoEvent ==
  (Returned("goto") /\ RetGoto.by = "" /\ RetGoto.timer = "fired") =>
    /\ Ret.outcome = "Navigation timeout"
    /\ RetGoto.elapsed >= RetGoto.timeout
    /\ ~RetGoto.listener

\* C8 as amended: a goto whose navigate command succeeded and whose listener
\* got neither a load nor a DOM-ready event of its tab before its timer ran
\* fails with `Navigation timeout after <timeout>ms`, no earlier than the
\* timeout after it began, and its listener is removed, once.
C8_TimeoutAfterNavigate ==
  (Returned("goto") /\ RetGoto.navigate = "ok" /\ RetGoto.by = "") =>
    /\ Ret.outcome = "Navigation timeout"
    /\ RetGoto.errMs = RetGoto.timeout * MsPerUnit
    /\ RetGoto.elapsed >= RetGoto.timeout
    /\ RetGoto.timer = "fired"
    /\ ~RetGoto.listener /\ RetGoto.removes = 1

\* A goto has timed out.
C8_Witness ==
  /\ Returned("goto") /\ Ret.outcome = "Navigation timeout"
  /\ RetGoto.by = "" /\ RetGoto.elapsed >= RetGoto.timeout

\* C9: with waitUntil "load" a DOM-ready event does not end the wait of goto.
C9_WaitsForSelectedSignal ==
  \A g \in Gotos :
    (gotos[g].waitUntil = "load" /\ gotos[g].promise = "resolved")
      => gotos[g].by = LoadEvent

\* C10 as stated: a goto whose load-complete event arrived before the deadline
\* has succeeded, with its timer cancelled, after the settle delay.
C10_SucceedsWheneverEvent ==
  (Returned("goto") /\ RetGoto.by # "" /\ RetGoto.at < RetGoto.timeout) =>
    /\ Ret.outcome = "ok"
    /\ RetGoto.timer = "cleared" /\ RetGoto.promise = "resolved"
    /\ RetGoto.elapsed >= RetGoto.at + SettleDelay

\* C10 as amended: the same of a goto whose navigate command succeeded; and
\* from the event on the timer of any goto is cancelled and its promise
\* resolved, so that no timeout follows.
C10_SucceedsAfterNavigate ==
  /\ (Returned("goto") /\ RetGoto.navigate = "ok" /\ RetGoto.by # "") =>
       /\ Ret.outcome = "ok"
       /\ RetGoto.timer = "cleared" /\ RetGoto.promise = "resolved"
       /\ RetGoto.elapsed >= RetGoto.at + SettleDelay
  /\ \A g \in Gotos :
       gotos[g].by # "" =>
         /\ gotos[g].timer = "cleared" /\ gotos[g].promise = "resolved"
         /\ ~gotos[g].listener

\* goto(url, {timeoutMs: 5000}) with its load event at 200 ms has returned
\* successfully, 500 ms after the event.
C10_Witness ==
  /\ Returned("goto") /\ Ret.outcome = "ok"
  /\ RetGoto.timeout = ScenarioTimeout /\ RetGoto.waitUntil = "load"
  /\ RetGoto.by = LoadEvent /\ RetGoto.at = 2
  /\ RetGoto.elapsed = RetGoto.at + SettleDelay

\* The most existence checks a waitForSelector can make.
MaxChecks == WaitTimeout \div WaitInterval

WaitTimedOut == Returned("waitForSelector") /\ Ret.outcome = "Timeout waiting for selector"

\* C11 as stated: waitForSelector(s, {timeout: 1000, interval: 100}) that has
\* failed because the selector never appeared has made 9 to 11 checks.
C11_NineToElevenChecks ==
  WaitTimedOut => (Ret.step >= 9 /\ Ret.step <= 11)

\* C11 as amended: it has made at least 1 and at most 10 checks, whatever the
\* time the checks and the timers take, and 10 when every check was answered
\* at once and every sleep ended on time; no call under way has made more.
C11_AtMostTenChecks ==
  /\ WaitTimedOut =>
       /\ Ret.step >= 1 /\ Ret.step <= MaxChecks
       /\ ~Ret.late => Ret.step = MaxChecks
  /\ \A c \in Waits : call[c].step <= MaxChecks

\* A waitForSelector has failed after 10 checks, none of them slow.
C11_Witness ==
  WaitTimedOut /\ Ret.step = MaxChecks /\ ~Ret.late

\* The log of a waitForSelector alternates check and sleep.
Alternates(log) ==
  \A i \in 1..Len(log) :
    log[i] = IF i % 2 = 1 THEN "Runtime.evaluate" ELSE "sleep"

\* C12: waitForSelector returns as soon as a check yields true, without a
\* further sleep or check; otherwise it alternates check and sleep(interval),
\* starts no check once the deadline has passed, and then fails with the error
\* that names the selector; and when every evaluate returns it terminates.
C12_WaitForSelectorLoop ==
  /\ [](/\ \A c \in Waits :
            /\ Alternates(call[c].log)
            /\ call[c].pc = "sleeping" =>
                 (call[c].resp.value # "true" /\ call[c].wake <= WaitInterval)
        /\ Returned("waitForSelector") =>
            /\ Alternates(Ret.log)
            /\ Ret.outcome = "ok" =>
                 (Ret.resp.value = "true" /\ Len(Ret.log) = 2 * Ret.step - 1)
            /\ Ret.outcome = "Timeout waiting for selector" =>
                 /\ Ret.ret = Ret.parts[1].value /\ Ret.ret = Selector
                 /\ Ret.spent >= WaitTimeout
                 /\ Ret.resp.value # "true" /\ Len(Ret.log) = 2 * Ret.step)
  /\ [][\A c \in Calls :
          (Transmits(c) /\ call'[c].op = "waitForSelector")
            => call[c].spent < WaitTimeout]_vars
  /\ \A c \in Calls : (c \in Waits) ~> (c \notin Waits)

\* A waitForSelector has returned at its second check, the first to yield true.
C12_Witness ==
  /\ Returned("waitForSelector") /\ Ret.outcome = "ok"
  /\ Ret.step = 2 /\ Ret.log = <<"Runtime.evaluate", "sleep", "Runtime.evaluate">>

\* close() of page p has completed, and nothing has attached the page since.
CloseCompleted(p) ==
  /\ pg[p].closedOnce /\ ~pg[p].attached
  /\ \A c \in Calls : ~(call[c].op = "close" /\ call[c].page = p)

\* C13: once close() has completed, a goto of that session still waiting for
\* its load event ends with the not-attached error or a transport error: its
\* wait is ended neither by the navigation timeout nor by an event.
C13_WaitEndsWithSessionError ==
  [][\A c \in Calls :
       (/\ call[c].op = "goto" /\ call[c].pc = "await_load"
        /\ gotos[call[c].g].promise = "pending"
        /\ CloseCompleted(call[c].page))
       => (\/ gotos'[call[c].g].promise = "pending"
           \/ done'.call.outcome \in {"Debugger not attached",
                                      "CDP command failed"})]_vars

\* C14: handleLookup has started the three extractors before it awaits any of
\* them; whatever the three outcomes, it does not reject, and the aggregate it
\* returns has exactly the entries virustotal, ipinfo and abuseipdb: the value
\* of each extractor that fulfilled, an error entry for each that rejected.
C14_AggregateOfAllThree ==
  \A i \in Lookups :
    LET l == bg.lk[i] IN
    /\ l.pc # "rejected"
    /\ l.pc \in {"await_all", "await_results", "returned"} =>
         \A s \in SourceSet : l.settled[s].status # "none"
    /\ l.pc = "returned" =>
         /\ DOMAIN l.results = SourceSet
         /\ \A s \in SourceSet :
              /\ l.settled[s].status = "fulfilled" =>
                   l.results[s] = l.settled[s].value
              /\ l.settled[s].status = "rejected" =>
                   (l.results[s].error # "" /\ l.results[s].data = "")

\* C15: createPage either fails or returns a session whose tab was created
\* with about:blank, to which the debugger was attached before any command was
\* sent, on which Page, Runtime and DOM were enabled, in this order, and whose
\* attached flag is true.
C15_OpenedMeansAttachedAndEnabled ==
  /\ (Returned("createPage") /\ Ret.outcome = "ok") =>
       /\ pg[Ret.page].attached /\ pg[Ret.page].stage = "ready"
       /\ pg[Ret.page].enabled = {"Page.enable", "Runtime.enable", "DOM.enable"}
       /\ Ret.log = <<"tabs.create about:blank", "debugger.attach",
                      "Page.enable", "Runtime.enable", "DOM.enable">>
  /\ \A p \in Pages :
       pg[p].stage = "ready" /\ ~pg[p].closedOnce /\ pg[p].enabled # {}
         => pg[p].attached
  /\ \A c \in Calls :
       (call[c].op = "createPage" /\ call[c].pc \in {"await_tab", "await_attach"})
         => (~pg[call[c].page].attached /\ pg[call[c].page].enabled = {})

\* createPage has returned a session.
C15_Witness ==
  /\ Returned("createPage") /\ Ret.outcome = "ok"
  /\ pg[Ret.page].attached /\ chrome[Ret.page].dbg

\* C16: evaluate sends one Runtime.evaluate command, with returnByValue and
\* awaitPromise; a response with exceptionDetails makes it fail with the
\* evaluation error that carries their text, any other response makes it return
\* result.value, absent when the response has none.
C16_EvaluateResult ==
  /\ (Returned("evaluate") /\ Ret.resp.kind # "none") =>
       /\ Ret.log = <<"Runtime.evaluate">>
       /\ Ret.params = {"expression", "returnByValue", "awaitPromise"}
       /\ Ret.resp.kind = "exception" =>
            (Ret.outcome = "Evaluation failed" /\ Ret.ret = Ret.resp.value)
       /\ Ret.resp.kind = "result" =>
            (Ret.outcome = "ok" /\ Ret.ret = Ret.resp.value)
  /\ (Returned("evaluate") /\ Ret.outcome = "ok") => Ret.resp.kind = "result"
  /\ \A c \in Calls :
       call[c].op = "evaluate" => call[c].log = <<"Runtime.evaluate">>

\* An evaluate has failed with the text of the exception its script raised.
C16_Witness ==
  /\ Returned("evaluate") /\ Ret.outcome = "Evaluation failed"
  /\ Ret.resp.kind = "exception" /\ Ret.ret \in ExceptionTexts

\* C17: in every derived helper (waitForSelector, getText, getTextAll,
\* getAttribute, exists, click, type) every value the caller supplied and the
\* helper interpolates (each selector, the text of type, the attribute name of
\* getAttribute) goes into the expression with the single-quote escaping applied.
C17_EveryValueEscaped ==
  \A c \in Building :
    \A k \in 1..Len(call[c].parts) :
      call[c].parts[k].text = Escape(call[c].parts[k].value)

\* The position of the quote that opens the k-th literal of the expression of
\* call c, and of the quote of the template that closes it.
Opens(c, k) ==
  LET first == Len(Before(call[c].op)) + 1 IN
  IF k = 1 THEN first
  ELSE first + Len(call[c].parts[1].text) + 1 + Len(Between(call[c].op)) + 1
Closes(c, k) == Opens(c, k) + Len(call[c].parts[k].text) + 1

\* C18: for every selector and text over an alphabet with single quotes and
\* backslashes, the escaped value cannot end the string literal of the
\* expression early, and the literal denotes exactly the original value.
C18_LiteralDenotesValue ==
  \A c \in Building :
    \A k \in 1..Len(call[c].parts) :
      (k = 1 \/ call[c].op = "type") =>
        LET lit == ReadLiteral(call[c].source, Opens(c, k) + 1, <<>>) IN
          /\ lit.end = Closes(c, k)
          /\ lit.value = call[c].parts[k].value

\* A goto whose navigate command has been transmitted and whose deadline timer
\* has not run: it waits for the load event of its target.
Waiting(g) ==
  /\ gotos[g].used /\ gotos[g].navigate \in {"sent", "ok"}
  /\ gotos[g].timer = "pending" /\ gotos[g].promise = "pending"

\* C19: goto registers its listener before it transmits the navigate command,
\* so a load event of its target delivered after the transmission and before
\* the deadline is observed by that goto; and a listener observes no event
\* delivered before it was registered: a goto starts with nothing observed and
\* its wait is completed only by a delivery to its registered listener.
C19_ListenerBeforeNavigate ==
  [][/\ \A c \in Calls :
          Transmits(c) /\ call'[c].op = "goto" => gotos'[call'[c].g].listener
     /\ \A p \in Pages : \A g \in Gotos :
          Emit(p, LoadEvent) /\ Waiting(g) /\ gotos[g].page = p =>
            gotos'[g].promise = "resolved" /\ gotos'[g].by = LoadEvent
     /\ \A g \in Gotos :
          /\ ~gotos[g].used /\ gotos'[g].used =>
                gotos'[g].promise = "pending" /\ gotos'[g].by = ""
          /\ gotos[g].promise = "pending" /\ gotos'[g].promise = "resolved" =>
                /\ gotos[g].listener
                /\ \E m \in EventMethods : Emit(gotos[g].page, m)]_vars

\* The load event has completed the wait of a goto whose navigate command was
\* transmitted and is not answered yet.
C19_Witness ==
  \E g \in Gotos : /\ gotos[g].promise = "resolved" /\ gotos[g].by = LoadEvent
                   /\ gotos[g].navigate = "sent"

\* Goto g waits on the event bus: its listener is registered and its deadline
\* timer pending.
Listening(g) ==
  gotos[g].used /\ gotos[g].listener /\ gotos[g].timer = "pending"

\* C20: with several sessions waiting in goto on the shared event bus, an event
\* of another session's target never completes the wait of this session, never
\* cancels its timer and never deregisters its listener; each wait ends only by
\* an event of its own target or by its own deadline.
C20_OnlyOwnEventsEndAWait ==
  [][\A g \in Gotos :
       /\ \A p \in Pages, m \in EventMethods :
            Emit(p, m) /\ gotos[g].page # p => gotos'[g] = gotos[g]
       /\ \/ gotos[g].promise = "pending" /\ gotos'[g].promise # "pending"
          \/ gotos[g].timer = "pending" /\ gotos'[g].timer # "pending"
          \/ gotos[g].listener /\ ~gotos'[g].listener
          => \/ \E m \in EventMethods : Emit(gotos[g].page, m)
             \/ GotoTimerFire(g)]_vars

\* Two sessions wait in goto and the load event of one target has ended the
\* wait of that session alone.
C20_Witness ==
  \E g, h \in Gotos :
    /\ gotos[g].page # gotos[h].page
    /\ gotos[g].promise = "resolved" /\ gotos[g].by = LoadEvent
    /\ Listening(h) /\ gotos[h].promise = "pending"
    /\ gotos[h].navigate \in {"sent", "ok"}

\* The current scrapeVirusTotal is in its polling loop on page p.
Polling(p) ==
  ext[p].kind = "virustotal" /\ ext[p].pc \in {"poll", "pollsleep"}

\* C21: on a session it has opened, scrapeVirusTotal navigates, waits after
\* the navigation and then polls the text length at one-second intervals: it
\* stops at the first check that exceeds 100 characters and after at most 12
\* checks otherwise, the loop always terminates, and the extraction evaluate
\* runs next whether or not the threshold was reached (a check that fails
\* ends the extractor through its catch block).
C21_PollsAtMostTwelveTimes ==
  /\ [](\A p \in Pages :
          /\ ext[p].attempts <= MaxAttempts
          /\ Polling(p) /\ ext[p].pc = "poll" => ext[p].attempts < MaxAttempts)
  /\ [][\A p \in Pages : ext[p].kind = "virustotal" =>
          /\ ext[p].pc = "createPage" /\ ext'[p].pc # "createPage"
                /\ call[p].outcome = "ok" =>
                ext'[p].pc = "goto" /\ call'[p].op = "goto"
          /\ ext[p].pc = "goto" /\ ext'[p].pc = "sleep" =>
                call'[p].op = "sleep" /\ call'[p].wake = InitialWait("virustotal")
          /\ ext[p].pc = "sleep" /\ ext'[p].pc # "sleep" =>
                ext'[p].pc = "poll" /\ call'[p].expr = TextLength
          /\ ext[p].pc = "poll" /\ ext'[p].pc # "poll" =>
                IF call[p].outcome # "ok" THEN ext'[p].result = "error"
                ELSE IF call[p].ret = "> 100"
                THEN ext'[p].pc = "evaluate" /\ call'[p].expr = Extraction
                ELSE /\ ext'[p].pc = "pollsleep" /\ call'[p].op = "sleep"
                     /\ call'[p].wake * MsPerUnit = 1000
          /\ ext[p].pc = "pollsleep" /\ ext'[p].pc # "pollsleep" =>
                /\ ext'[p].attempts = ext[p].attempts + 1
                /\ IF ext'[p].attempts < MaxAttempts
                   THEN ext'[p].pc = "poll" /\ call'[p].expr = TextLength
                   ELSE ext'[p].pc = "evaluate" /\ call'[p].expr = Extraction]_vars
  /\ \A p \in ExtPages : Polling(p) ~> ~Polling(p)

\* C22: when createPage fails after the tab has been created (the attach is
\* rejected, or enabling a domain fails), nothing is left behind: once the
\* extractor that called createPage has returned its error entry, the tab
\* created for it has been removed and no debugger is attached to it.
C22_FailedCreatePageLeavesNoTab ==
  \A p \in Pages :
    ext[p].pc = "returned" /\ ~ext[p].opened =>
      ~chrome[p].tab /\ ~chrome[p].dbg

\* C23: a goto that succeeds was ended by a load-complete event that the
\* navigation it issued has caused: an event left over from the initial blank
\* page or from an earlier goto of the session never ends the wait of a later
\* goto.
C23_EndedByOwnNavigation ==
  Returned("goto") /\ Ret.outcome = "ok" =>
    RetGoto.nav # 0 /\ RetGoto.cause = RetGoto.nav

\* A close of the session of page p has requested the detach: one that is
\* still under way in another slot than c, or one that has got its answer.
DetachRequested(p, c) ==
  \/ pg[p].closedOnce
  \/ \E d \in Calls \ {c} : /\ call[d].op = "close" /\ call[d].page = p
                             /\ call[d].log # <<>>
                             /\ call[d].log[1] = "debugger.detach"

\* C24: for any interleaving of close() calls on one session, a second close()
\* started while the first still awaits its detach included, the detach is
\* requested at most once for the session, and no command is transmitted on
\* the session after its first close() has requested the detach.
C24_DetachOnceThenNoCommand ==
  [][\A c \in Calls :
       \/ Transmits(c)
       \/ call'[c].pc = "await_detach" /\ call[c].pc # "await_detach"
       => ~DetachRequested(call'[c].page, c)]_vars

\* C25: the three extractors never reject: whatever fails (createPage, goto,
\* sleep, evaluate or close), scrapeVirusTotal, scrapeIPInfo and
\* scrapeAbuseIPDB resolve with a result object or with an object
\* {error: <non-empty string>}, so that Promise.allSettled never reports one of
\* them as rejected.
C25_ExtractorsNeverReject ==
  \A p \in Pages :
    ext[p].pc = "returned" =>
      /\ ext[p].result # "rejected"
      /\ \/ ext[p].result = "data" /\ ext[p].message = ""
         \/ ext[p].result = "error" /\ ext[p].message # ""

\* An extractor has returned an error entry after its extraction evaluate
\* threw and the close of its session had its tabs.remove rejected.
C25_Witness ==
  \E p \in Pages :
    /\ ext[p].pc = "returned" /\ ext[p].result = "error"
    /\ ext[p].message = "Evaluation failed" /\ ext[p].closes = 1
    /\ ext[p].opened /\ chrome[p].tab

\* No handleLookup is under way and chrome.storage.local has answered every
\* write.
NoLookupInProgress ==
  /\ \A i \in AllLookups : bg.lk[i].pc \in {"idle", "returned", "rejected"}
  /\ bg.writes = <<>>

\* C26: whenever no lookup is in progress, the stored lastResults are the
\* results of the lookup for the stored lastSearch address, also when two
\* lookups for different addresses overlapped and finished in either order.
C26_StoredResultsMatchStoredSearch ==
  NoLookupInProgress /\ bg.store.lastSearch # "" =>
    \E i \in AllLookups : /\ bg.lk[i].pc = "returned"
                          /\ bg.lk[i].ip = bg.store.lastSearch
                          /\ bg.lk[i].results = bg.store.lastResults

\* C27: every lookup message gets one response, the three-source aggregate or
\* {error: message}, also when the write of lastSearch or of lastResults to
\* storage fails; and a storage failure does not stop the three extractors
\* from running: a lookup that has been answered has run all three.
C27_AnsweredAfterExtractorsRan ==
  \A i \in Lookups :
    LET l == bg.lk[i] IN
    /\ Response(l).kind = "aggregate" => DOMAIN Response(l).results = SourceSet
    /\ Response(l).kind # "none" =>
         \A s \in SourceSet : l.settled[s].status \in {"fulfilled", "rejected"}
====
